---- MODULE Spec2Model ----
(***************************************************************************)
(* The in-process TTL result cache of goobie-bot (api/cache.py):           *)
(* CacheEntry, CacheManager (get / set / delete / clear / cleanup_expired  *)
(* / get_stats), the category -> TTL table CACHE_DURATIONS, the key        *)
(* generators and the cache_result wrapper.                                *)
(*                                                                         *)
(* Every CacheManager method runs its body under one asyncio.Lock and has  *)
(* no await inside the locked section, so a call that finds the lock free  *)
(* runs to its return without yielding: in Spec, SpecStatsTest and         *)
(* SpecKeys each method is one action. SpecTasks runs gathered tasks and   *)
(* gives every await its own step (the lock, the wrapped function), which  *)
(* allows every interleaving asyncio can produce.                          *)
(* time.time() is the variable now, advanced by Tick.                      *)
(***************************************************************************)
EXTENDS Integers, Sequences, FiniteSets, TLC

VARIABLES
    cache,      \* CacheManager._cache: dict key -> CacheEntry
    stats,      \* CacheManager._stats: the counters
    now,        \* the value time.time() returns
    call,       \* the last completed call: arguments, return value, log line
    stored,     \* per key in the cache, the arguments and time of the
                \* set(key, ...) that stored its entry
    run,        \* the last set or delete of a key, and the get calls of that
                \* key that came straight after it
    pc,         \* the statements of test_cache_statistics that have run
    lock,       \* CacheManager._lock: the task that holds it, or None
    tasks,      \* the tasks of one asyncio.gather: call, position, locals
    before,     \* the keys and the counters when the tasks were created
    cmd,        \* the bot command handled last: caller, permission check,
                \* position in the handler, the cache call it made last
    sweeper,    \* cache_cleanup_task: its position in the loop
    previous    \* the call of a key generator made before the last one

vars == <<cache, stats, now, call, stored, run, pc, lock, tasks, before, cmd,
          sweeper, previous>>

\* The variables of the bot's command handlers and of its clean-up task,
\* and of the callers of the key generators.
bot == <<cmd, sweeper, previous>>

\* The variables of the callers; the CacheManager has none of them.
callers == <<pc, lock, tasks, before, bot>>

-----------------------------------------------------------------------------
(* Values of the Python program *)

\* Python's None where an object or a string is expected.
None == "None"

\* Python's None where a number is expected (CacheEntry.ttl, .expires_at).
NoneInt == -1

\* CACHE_DURATIONS, seconds per cache type.
CACHE_DURATIONS ==
    [ game_data     |-> 1800,
      team_logos    |-> 86400,
      venue_data    |-> 86400,
      team_metadata |-> 7200,
      team_names    |-> 86400 ]

\* CACHE_DURATIONS.get(cache_type, <a TTL>): a fallback TTL for a type the
\* table does not hold.
DurationsGet_with_fallback(cache_type) ==
    IF cache_type \in DOMAIN CACHE_DURATIONS
        THEN CACHE_DURATIONS[cache_type]
        ELSE CACHE_DURATIONS["game_data"]

\* CACHE_DURATIONS.get(cache_type): None for a type the table does not hold.
DurationsGet(cache_type) ==
    IF cache_type \in DOMAIN CACHE_DURATIONS
        THEN CACHE_DURATIONS[cache_type]
        ELSE NoneInt

-----------------------------------------------------------------------------
(* Bounds of the model and the inputs the actions draw from *)

MaxOps == 3         \* calls that count in a statistics counter
MaxPrior == 2       \* counted calls made before test_cache_statistics starts

Keys == {"game_data_a", "team_logos_a", "game_datab"}
Values == {"value1", "value2"}
SetTypes == {"default", "game_data", "unknown_type"}
ClearTypes == {None, "game_data", "team_logos"}

\* The tasks of one asyncio.gather, and the value each of them writes.
Tasks == {"t1", "t2"}
OwnValue == [t1 |-> "value_1", t2 |-> "value_2"]

\* The keys and the cache types of the entries that are in the map when
\* tasks are gathered and of the entries the tasks set.
TaskKeys == {"game_data_a", "team_logos_a"}
TaskTypes == {"default", "game_data"}

\* The cache types the tasks call clear() with.
TaskClearTypes == {None, "game_data"}

\* The functions wrapped by cache_result (each with its own name as cache
\* type) and the argument they are called with.
Wrapped == {"game_data", "team_logos"}
Args == {"a"}

\* An empty result of a wrapped function, and the results it can return.
EmptyResult == "{}"
Results(t) == {None, EmptyResult, OwnValue[t]}

\* The keys test_cache_statistics uses.
StatKeys == {"stat_test_1", "stat_test_2", "non_existent"}

\* The keys run_basic_cache_test uses.
CommandKeys == {"test_basic_1", "non_existent_key"}

\* The keys the fetchers of the repository store their results under.
FetcherKeys ==
    { "team_metadata_galaxy", "team_metadata_dodgers",
      "team_logos_134153", "team_logos_1416",
      "venue_data_dignity_health_sports_park",
      "game_data_galaxy_soccer_20240101_20240107",
      "weekly_matches_20240101", "weekly_matches_20240107" }

\* Every key a call is made with.
AllKeys == Keys \cup StatKeys \cup CommandKeys \cup FetcherKeys

\* The clock values at which calls are made: the start, the last instant of
\* a game_data TTL that started then, and the first instant past it.
Instants == {0, CACHE_DURATIONS["game_data"], CACHE_DURATIONS["game_data"] + 1}

\* The calls counted so far; the model stops counting at MaxOps. The calls
\* of a test and of gathered tasks are bounded by the script and by the
\* number of tasks, and not counted here.
Counted ==
    IF pc = 0 /\ ~before.gathered /\ cmd.pc = 0
       THEN stats.hits + stats.misses + stats.sets + stats.deletes
               + stats.clears
       ELSE 0

-----------------------------------------------------------------------------
(* CacheEntry *)

\* CacheEntry.__init__(value, ttl)
CacheEntry(value, ttl) ==
    [ value         |-> value,
      created_at    |-> now,
      ttl           |-> ttl,
      expires_at    |-> IF ttl # NoneInt /\ ttl # 0 THEN now + ttl ELSE NoneInt,
      access_count  |-> 0,
      last_accessed |-> now ]

\* is_expired() with the comparison turned around.
is_expired_reversed(entry) ==
    IF entry.expires_at = NoneInt
        THEN FALSE
        ELSE now < entry.expires_at

\* is_expired() that counts the last instant of the TTL as expired.
is_expired_at_expiry(entry) ==
    IF entry.expires_at = NoneInt
        THEN FALSE
        ELSE now >= entry.expires_at

\* is_expired() taking an entry without expiry for an expired one.
is_expired_without_expiry(entry) ==
    IF entry.expires_at = NoneInt
        THEN TRUE
        ELSE now > entry.expires_at

\* CacheEntry.is_expired()
is_expired(entry) ==
    IF entry.expires_at = NoneInt
        THEN FALSE
        ELSE now > entry.expires_at

\* access() that forgets to count the read.
access_uncounted(entry) ==
    [entry EXCEPT !.last_accessed = now]

\* access() that starts the entry's lifetime again (a sliding expiry).
access_sliding(entry) ==
    [entry EXCEPT !.access_count = @ + 1, !.last_accessed = now,
                  !.expires_at = IF entry.ttl # NoneInt THEN now + entry.ttl
                                                        ELSE NoneInt]

\* CacheEntry.access(): the entry after the call (the call returns .value)
access(entry) ==
    [entry EXCEPT !.access_count = @ + 1, !.last_accessed = now]

-----------------------------------------------------------------------------
(* dict and str helpers *)

\* d.clear() where one key was to be deleted.
DelKeys_all(d, ks) ==
    IF ks \cap DOMAIN d = {} THEN d ELSE [k \in {} |-> d[k]]

\* del d[key] for each key of a set
DelKeys(d, ks) == [k \in DOMAIN d \ ks |-> d[k]]

\* d.setdefault(key, entry): an entry already at key stays.
Put_if_absent(d, key, entry) ==
    [k \in DOMAIN d \cup {key} |-> IF k \in DOMAIN d THEN d[k] ELSE entry]

\* d[key] = entry
Put(d, key, entry) ==
    [k \in DOMAIN d \cup {key} |-> IF k = key THEN entry ELSE d[k]]

\* str.startswith(prefix)
startswith(s, prefix) ==
    /\ Len(s) >= Len(prefix)
    /\ SubSeq(s, 1, Len(prefix)) = prefix

\* string.ascii_uppercase and string.ascii_lowercase
ascii_uppercase == "ABCDEFGHIJKLMNOPQRSTUVWXYZ"
ascii_lowercase == "abcdefghijklmnopqrstuvwxyz"

\* str.lower() of one character (ASCII names).
lower_char(c) ==
    LET at == {i \in 1..Len(ascii_uppercase) :
                 SubSeq(ascii_uppercase, i, i) = c}
    IN  IF at = {}
           THEN c
           ELSE LET i == CHOOSE i \in at : TRUE
                IN  SubSeq(ascii_lowercase, i, i)

\* str.lower()
RECURSIVE lower(_)
lower(s) ==
    IF Len(s) = 0
       THEN ""
       ELSE lower_char(SubSeq(s, 1, 1)) \o lower(SubSeq(s, 2, Len(s)))

\* str.replace(old, new), old not empty: every occurrence of old, from the
\* left, none of them overlapping.
RECURSIVE replace(_, _, _)
replace(s, old, new) ==
    IF Len(s) < Len(old)
       THEN s
       ELSE IF SubSeq(s, 1, Len(old)) = old
               THEN new \o replace(SubSeq(s, Len(old) + 1, Len(s)), old, new)
               ELSE SubSeq(s, 1, 1) \o replace(SubSeq(s, 2, Len(s)), old, new)

EmptyDict == [k \in {} |-> None]

\* The key holds no entry.
NoStore == [value |-> None, cache_type |-> None, at |-> 0]

\* What is remembered of the set calls once only the keys ks hold an entry.
Keep(st, ks) == [k \in AllKeys |-> IF k \in ks THEN st[k] ELSE NoStore]

\* No CacheEntry.
NoEntry ==
    [ value |-> None, created_at |-> 0, ttl |-> NoneInt,
      expires_at |-> NoneInt, access_count |-> 0, last_accessed |-> 0 ]

\* The callers of a command: the user ID whitelist, and the caller's place
\* in the guild the command came from (guild is FALSE for a direct message).
Users ==
    { [whitelisted |-> FALSE, guild |-> TRUE,  administrator |-> FALSE,
       owner |-> FALSE],
      [whitelisted |-> TRUE,  guild |-> FALSE, administrator |-> FALSE,
       owner |-> FALSE],
      [whitelisted |-> FALSE, guild |-> TRUE,  administrator |-> TRUE,
       owner |-> FALSE],
      [whitelisted |-> FALSE, guild |-> TRUE,  administrator |-> FALSE,
       owner |-> TRUE] }

\* No command was handled yet.
NoCommand ==
    [ name |-> None, action |-> None,
      caller |-> [whitelisted |-> FALSE, guild |-> FALSE,
                  administrator |-> FALSE, owner |-> FALSE],
      check |-> "unchecked", pc |-> 0, did |-> None ]

\* A task that was not created.
NoTask ==
    [ op |-> None, key |-> None, value |-> None, cache_type |-> None,
      pc |-> "idle", method |-> None, entry |-> NoEntry, result |-> None,
      ret |-> None, log |-> None, calls |-> 0, did_set |-> FALSE ]

\* The calls so far are no set or delete followed by reads of its key.
NoRun == [op |-> None, key |-> None, value |-> None, cache_type |-> None,
          replaced |-> None, at |-> 0, n |-> 0, hits0 |-> 0, misses0 |-> 0]

\* A set or delete of key returned: the reads that follow are counted from
\* the counters as they are now. replaced is the cache type of the entry
\* that a set replaced, None if the key held none.
StartRun(op, key, value, cache_type) ==
    [op |-> op, key |-> key, value |-> value, cache_type |-> cache_type,
     replaced |-> IF op = "set" /\ key \in DOMAIN cache
                     THEN stored[key].cache_type
                     ELSE None,
     at |-> now, n |-> 0, hits0 |-> stats.hits, misses0 |-> stats.misses]

Result(op, key, value, cache_type, ret, log) ==
    [op |-> op, key |-> key, value |-> value, cache_type |-> cache_type,
     ret |-> ret, log |-> log]

-----------------------------------------------------------------------------
(* CacheManager *)

\* CacheManager.__init__
Init ==
    /\ cache = EmptyDict
    /\ stats = [hits |-> 0, misses |-> 0, sets |-> 0, deletes |-> 0,
                clears |-> 0, evictions |-> 0, memory_warnings |-> 0]
    /\ now = 0
    /\ call = Result("__init__", None, None, None, None, "initialized")
    /\ stored = [k \in AllKeys |-> NoStore]
    /\ run = NoRun
    /\ pc = 0
    /\ lock = None
    /\ tasks = [t \in Tasks |-> NoTask]
    /\ before = [gathered |-> FALSE, keys |-> {}, sets |-> 0, misses |-> 0]
    /\ cmd = NoCommand
    /\ sweeper = [pc |-> "idle", last |-> None, logged_error |-> FALSE]
    /\ previous = Result("__init__", None, None, None, None, "initialized")

\* get() that counts every lookup as a request served, also a missing key.
get_miss_counted_as_hit(key) ==
    /\ Counted < MaxOps
    /\ IF key \notin DOMAIN cache THEN
          /\ stats' = [stats EXCEPT !.hits = @ + 1]
          /\ cache' = cache
          /\ call' = Result("get", key, None, None, None, "miss")
       ELSE IF is_expired(cache[key]) THEN
          /\ cache' = DelKeys(cache, {key})
          /\ stats' = [stats EXCEPT !.misses = @ + 1]
          /\ call' = Result("get", key, None, None, None, "expired")
       ELSE
          /\ cache' = [cache EXCEPT ![key] = access(cache[key])]
          /\ stats' = [stats EXCEPT !.hits = @ + 1]
          /\ call' = Result("get", key, None, None, cache[key].value, "hit")
    /\ stored' = Keep(stored, DOMAIN cache')
    /\ run' = IF run.key = key THEN [run EXCEPT !.n = @ + 1] ELSE NoRun
    /\ UNCHANGED now

\* CacheManager.get(key)
get(key) ==
    /\ Counted < MaxOps
    /\ IF key \notin DOMAIN cache THEN
          /\ stats' = [stats EXCEPT !.misses = @ + 1]
          /\ cache' = cache
          /\ call' = Result("get", key, None, None, None, "miss")
       ELSE IF is_expired(cache[key]) THEN
          /\ cache' = DelKeys(cache, {key})
          /\ stats' = [stats EXCEPT !.misses = @ + 1]
          /\ call' = Result("get", key, None, None, None, "expired")
       ELSE
          /\ cache' = [cache EXCEPT ![key] = access(cache[key])]
          /\ stats' = [stats EXCEPT !.hits = @ + 1]
          /\ call' = Result("get", key, None, None, cache[key].value, "hit")
    /\ stored' = Keep(stored, DOMAIN cache')
    /\ run' = IF run.key = key THEN [run EXCEPT !.n = @ + 1] ELSE NoRun
    /\ UNCHANGED now

\* CacheManager.set(key, value, cache_type)
set(key, value, cache_type) ==
    /\ Counted < MaxOps
    /\ LET ttl == DurationsGet(cache_type)
           entry == CacheEntry(value, ttl)
       IN  /\ cache' = Put(cache, key, entry)
           /\ stats' = [stats EXCEPT !.sets = @ + 1]
           /\ call' = Result("set", key, value, cache_type, None, "set")
    /\ stored' = [stored EXCEPT ![key] =
                     [value |-> value, cache_type |-> cache_type, at |-> now]]
    /\ run' = StartRun("set", key, value, cache_type)
    /\ UNCHANGED now

\* delete() that counts the call before it looks for the key.
delete_counted_first(key) ==
    /\ Counted < MaxOps
    /\ stats' = [stats EXCEPT !.deletes = @ + 1]
    /\ IF key \in DOMAIN cache THEN
          /\ cache' = DelKeys(cache, {key})
          /\ call' = Result("delete", key, None, None, TRUE, "deleted")
          /\ run' = StartRun("delete", key, None, None)
       ELSE
          /\ call' = Result("delete", key, None, None, FALSE, "non-existent")
          /\ run' = NoRun
          /\ UNCHANGED cache
    /\ stored' = Keep(stored, DOMAIN cache')
    /\ UNCHANGED now

\* CacheManager.delete(key)
delete(key) ==
    /\ IF key \in DOMAIN cache THEN
          /\ Counted < MaxOps
          /\ cache' = DelKeys(cache, {key})
          /\ stats' = [stats EXCEPT !.deletes = @ + 1]
          /\ call' = Result("delete", key, None, None, TRUE, "deleted")
          /\ run' = StartRun("delete", key, None, None)
       ELSE
          /\ call' = Result("delete", key, None, None, FALSE, "non-existent")
          /\ run' = NoRun
          /\ UNCHANGED <<cache, stats>>
    /\ stored' = Keep(stored, DOMAIN cache')
    /\ UNCHANGED now

\* keys_to_delete matching the cache type alone, without the "_" after it.
keys_to_delete_without_separator(cache_type) ==
    {k \in DOMAIN cache : startswith(k, cache_type)}

\* The keys clear(cache_type) deletes when a cache type is given.
keys_to_delete(cache_type) ==
    {k \in DOMAIN cache : startswith(k, cache_type \o "_")}

\* clear() that, called without a cache type, also starts the counters
\* again from zero ("clear cache and reset stats").
clear_resetting_stats(cache_type) ==
    /\ Counted < MaxOps
    /\ IF cache_type = None THEN
          LET count == Cardinality(DOMAIN cache)
          IN  /\ cache' = EmptyDict
              /\ stats' = [stats EXCEPT !.hits = 0, !.misses = 0, !.sets = 0,
                                        !.deletes = 0, !.clears = @ + 1]
              /\ call' = Result("clear", None, None, cache_type, count,
                                "cleared all")
       ELSE
          LET ks == keys_to_delete(cache_type)
          IN  /\ cache' = DelKeys(cache, ks)
              /\ stats' = [stats EXCEPT !.clears = @ + 1]
              /\ call' = Result("clear", None, None, cache_type,
                                Cardinality(ks), "cleared type")
    /\ stored' = Keep(stored, DOMAIN cache')
    /\ run' = NoRun
    /\ UNCHANGED now

\* clear() that takes len(self._cache) after emptying the map.
clear_counted_after(cache_type) ==
    /\ Counted < MaxOps
    /\ IF cache_type = None THEN
          /\ cache' = EmptyDict
          /\ stats' = [stats EXCEPT !.clears = @ + 1]
          /\ call' = Result("clear", None, None, cache_type,
                            Cardinality(DOMAIN cache'), "cleared all")
       ELSE
          LET ks == keys_to_delete(cache_type)
          IN  /\ cache' = DelKeys(cache, ks)
              /\ stats' = [stats EXCEPT !.clears = @ + 1]
              /\ call' = Result("clear", None, None, cache_type,
                                Cardinality(ks), "cleared type")
    /\ stored' = Keep(stored, DOMAIN cache')
    /\ run' = NoRun
    /\ UNCHANGED now

\* CacheManager.clear(cache_type)
clear(cache_type) ==
    /\ Counted < MaxOps
    /\ IF cache_type = None THEN
          LET count == Cardinality(DOMAIN cache)
          IN  /\ cache' = EmptyDict
              /\ stats' = [stats EXCEPT !.clears = @ + 1]
              /\ call' = Result("clear", None, None, cache_type, count,
                                "cleared all")
       ELSE
          LET ks == keys_to_delete(cache_type)
          IN  /\ cache' = DelKeys(cache, ks)
              /\ stats' = [stats EXCEPT !.clears = @ + 1]
              /\ call' = Result("clear", None, None, cache_type,
                                Cardinality(ks), "cleared type")
    /\ stored' = Keep(stored, DOMAIN cache')
    /\ run' = NoRun
    /\ UNCHANGED now

\* expired_keys taking every entry that has an expiry time, run out or not.
expired_keys_every_ttl == {k \in DOMAIN cache : cache[k].expires_at # NoneInt}

\* The keys cleanup_expired() collects.
expired_keys == {k \in DOMAIN cache : is_expired(cache[k])}

\* CacheManager.cleanup_expired()
cleanup_expired ==
    /\ cache' = DelKeys(cache, expired_keys)
    /\ call' = Result("cleanup_expired", None, None, None,
                      Cardinality(expired_keys),
                      IF expired_keys # {} THEN "cleaned up"
                                           ELSE "no expired")
    /\ stored' = Keep(stored, DOMAIN cache')
    /\ run' = NoRun
    /\ UNCHANGED <<stats, now>>

\* The percentage cut off after two decimals instead of rounded.
RoundPct_truncated(num, den) == (num * 10000) \div den

\* round(x, 2) of the percentage num / den * 100, in hundredths of a percent
\* (round half to even).
RoundPct(num, den) ==
    LET scaled == num * 10000
        q == scaled \div den
        r == scaled % den
    IN  IF 2 * r > den \/ (2 * r = den /\ q % 2 = 1) THEN q + 1 ELSE q

\* get_stats() reporting the size the map had when the tasks were created,
\* as if len(self._cache) were taken before the lock.
get_stats_early_size ==
    /\ LET total_requests == stats.hits + stats.misses
           hit_rate == IF total_requests > 0
                          THEN RoundPct(stats.hits, total_requests)
                          ELSE 0
       IN  call' = Result("get_stats", None, None, None,
                          [ hits           |-> stats.hits,
                            misses         |-> stats.misses,
                            sets           |-> stats.sets,
                            deletes        |-> stats.deletes,
                            clears         |-> stats.clears,
                            hit_rate       |-> hit_rate,
                            total_entries  |-> IF before.gathered
                                                THEN Cardinality(before.keys)
                                                ELSE Cardinality(DOMAIN cache),
                            total_requests |-> total_requests ],
                          "stats")
    /\ run' = NoRun
    /\ UNCHANGED <<cache, stats, now, stored>>

\* CacheManager.get_stats()
get_stats ==
    /\ LET total_requests == stats.hits + stats.misses
           hit_rate == IF total_requests > 0
                          THEN RoundPct(stats.hits, total_requests)
                          ELSE 0
       IN  call' = Result("get_stats", None, None, None,
                          [ hits           |-> stats.hits,
                            misses         |-> stats.misses,
                            sets           |-> stats.sets,
                            deletes        |-> stats.deletes,
                            clears         |-> stats.clears,
                            hit_rate       |-> hit_rate,
                            total_entries  |-> Cardinality(DOMAIN cache),
                            total_requests |-> total_requests ],
                          "stats")
    /\ run' = NoRun
    /\ UNCHANGED <<cache, stats, now, stored>>

\* time.time() moves on between calls.
Tick(t) ==
    /\ t > now
    /\ now' = t
    /\ UNCHANGED <<cache, stats, call, stored, run>>

\* The calls of a program that uses the cache from one task.
Next ==
    \/ \E key \in Keys : get(key) /\ UNCHANGED callers
    \/ \E key \in Keys, value \in Values, cache_type \in SetTypes :
          set(key, value, cache_type) /\ UNCHANGED callers
    \/ \E key \in Keys : delete(key) /\ UNCHANGED callers
    \/ \E cache_type \in ClearTypes : clear(cache_type) /\ UNCHANGED callers
    \/ cleanup_expired /\ UNCHANGED callers
    \/ get_stats /\ UNCHANGED callers
    \/ \E t \in Instants : Tick(t) /\ UNCHANGED callers

Spec == Init /\ [][Next]_vars

-----------------------------------------------------------------------------
(* Cache key generators *)

\* The arguments the key generators are called with: those of
\* test_cache_key_generators and of the callers in api/sportsdb, and names
\* that differ from them in case or in white space; and arguments that
\* hold the separator of the key or the prefix of another generator.
Teams == {"galaxy", "la", "la_galaxy"}
Sports == {"soccer", "galaxy_soccer"}
Dates == {"20240101", "20240107"}
TeamIds == {"134153", "1416", "name_la_galaxy"}
Names == {"LA Galaxy", "la galaxy", "LA   Galaxy", "LA\tGalaxy",
          "Dignity Health Sports Park", "dignity health sports park"}
TeamRefs == {"galaxy", "LA Galaxy"}

\* game_data_key() that leaves the end of the date range out of the key.
game_data_key_without_end_date(team, sport, start_date, end_date) ==
    "game_data_" \o team \o "_" \o sport \o "_" \o start_date

game_data_key(team, sport, start_date, end_date) ==
    "game_data_" \o team \o "_" \o sport \o "_" \o start_date \o "_"
        \o end_date

team_logos_key(team_id) == "team_logos_" \o team_id

team_logos_by_name_key(team_name) ==
    "team_logos_name_" \o replace(lower(team_name), " ", "_")

venue_data_key(venue_name) ==
    "venue_data_" \o replace(lower(venue_name), " ", "_")

team_metadata_key(team_name) ==
    "team_metadata_" \o replace(lower(team_name), " ", "_")

\* team_name_key() that normalizes the reference as the name keys do.
team_name_key_normalized(team_ref) ==
    "team_name_" \o replace(lower(team_ref), " ", "_")

team_name_key(team_ref) == "team_name_" \o team_ref

\* The names of the key generators.
KeyGenerators ==
    {"game_data_key", "team_logos_key", "team_logos_by_name_key",
     "venue_data_key", "team_metadata_key", "team_name_key"}

\* A key generator has logged the key and returned it: the call is
\* recorded with its tuple of arguments as value.
Generated(op, args, key) ==
    /\ call' = [op |-> op, value |-> args, ret |-> key,
                log |-> "generated key"]
    /\ previous' = call
    /\ UNCHANGED <<cache, stats, now, stored, run, pc, lock, tasks, before,
                   cmd, sweeper>>

\* Calls of the key generators, in a program that has stored at most one
\* entry.
NextKeys ==
    \/ \E team \in Teams, sport \in Sports, start_date \in Dates,
          end_date \in Dates :
          Generated("game_data_key", <<team, sport, start_date, end_date>>,
                    game_data_key(team, sport, start_date, end_date))
    \/ \E team_id \in TeamIds :
          Generated("team_logos_key", <<team_id>>, team_logos_key(team_id))
    \/ \E team_name \in Names :
          Generated("team_logos_by_name_key", <<team_name>>,
                    team_logos_by_name_key(team_name))
    \/ \E venue_name \in Names :
          Generated("venue_data_key", <<venue_name>>,
                    venue_data_key(venue_name))
    \/ \E team_name \in Names :
          Generated("team_metadata_key", <<team_name>>,
                    team_metadata_key(team_name))
    \/ \E team_ref \in TeamRefs :
          Generated("team_name_key", <<team_ref>>, team_name_key(team_ref))
    \/ \E key \in Keys, value \in Values, cache_type \in SetTypes :
          /\ stats.sets = 0
          /\ set(key, value, cache_type)
          /\ UNCHANGED callers

SpecKeys == Init /\ [][NextKeys]_vars

-----------------------------------------------------------------------------
(* Tasks that use the cache concurrently, and the cache_result wrapper *)

\* cache_result's wrapper without key_func, one positional argument:
\* "_".join([func.__name__, str(arg)])
cache_key(func, arg) == func \o "_" \o arg

\* The calls a task can be created for. "cached" is a call of a function
\* wrapped by cache_result.
CallsOf(t) ==
    {[op |-> "set", key |-> key, value |-> OwnValue[t],
      cache_type |-> cache_type] : key \in TaskKeys, cache_type \in TaskTypes}
    \cup {[op |-> op, key |-> key, value |-> None, cache_type |-> None] :
            op \in {"get", "delete"}, key \in TaskKeys}
    \cup {[op |-> "cached", key |-> cache_key(func, arg), value |-> None,
           cache_type |-> func] : func \in Wrapped, arg \in Args}
    \cup {[op |-> "clear", key |-> None, value |-> None,
           cache_type |-> cache_type] : cache_type \in TaskClearTypes}
    \cup {[op |-> op, key |-> None, value |-> None, cache_type |-> None] :
            op \in {"cleanup_expired", "get_stats"}}

\* The task created for call c. set() builds its CacheEntry before it asks
\* for the lock, every other method asks for the lock first; the wrapper
\* starts with get().
NewTask(c) ==
    [NoTask EXCEPT !.op = c.op, !.key = c.key, !.value = c.value,
                   !.cache_type = c.cache_type,
                   !.pc = IF c.op = "set" THEN "build" ELSE "wait",
                   !.method = IF c.op = "cached" THEN "get" ELSE c.op]

\* asyncio.gather(*tasks)
gather ==
    /\ ~before.gathered
    /\ pc = 0
    /\ \E calls \in [Tasks -> UNION {CallsOf(t) : t \in Tasks}] :
          /\ \A t \in Tasks : calls[t] \in CallsOf(t)
          /\ tasks' = [t \in Tasks |-> NewTask(calls[t])]
    /\ before' = [gathered |-> TRUE, keys |-> DOMAIN cache,
                  sets |-> stats.sets, misses |-> stats.misses]
    /\ UNCHANGED <<cache, stats, now, call, stored, run, pc, lock, bot>>

\* set(), up to the lock: ttl = CACHE_DURATIONS.get(cache_type);
\* entry = CacheEntry(value, ttl)
build(t) ==
    /\ tasks[t].pc = "build"
    /\ tasks' = [tasks EXCEPT
                   ![t].pc = "wait",
                   ![t].entry = CacheEntry(tasks[t].value,
                                           DurationsGet(tasks[t].cache_type))]
    /\ UNCHANGED <<cache, stats, now, call, stored, run, pc, lock, before,
                   bot>>

\* async with self._lock that does not wait for the lock to be free.
acquire_without_waiting(t) ==
    /\ tasks[t].pc = "wait"
    /\ lock' = t
    /\ tasks' = [tasks EXCEPT ![t].pc = "held"]
    /\ UNCHANGED <<cache, stats, now, call, stored, run, pc, before, bot>>

\* async with self._lock: the task goes on when the lock is free.
acquire(t) ==
    /\ tasks[t].pc = "wait"
    /\ lock = None
    /\ lock' = t
    /\ tasks' = [tasks EXCEPT ![t].pc = "held"]
    /\ UNCHANGED <<cache, stats, now, call, stored, run, pc, before, bot>>

\* The wrapper looking at what get() returned, with a cached value taken
\* for a miss.
cached_lookup_refetching(task, cached_result, log) ==
    [task EXCEPT !.pc = "fetch", !.calls = @ + 1, !.log = log]

\* The wrapper after get(): a cached result that is not None is returned,
\* otherwise the wrapped function is called.
cached_lookup(task, cached_result, log) ==
    IF cached_result # None
       THEN [task EXCEPT !.pc = "done", !.ret = cached_result, !.log = log]
       ELSE [task EXCEPT !.pc = "fetch", !.calls = @ + 1, !.log = log]

\* get() called by the wrapper keeping the lock while the wrapped function
\* runs.
locked_get_keeping_lock(t) ==
    /\ tasks[t].pc = "held"
    /\ tasks[t].method = "get"
    /\ get(tasks[t].key)
    /\ lock' = IF tasks[t].op = "cached" /\ call'.log # "hit" THEN t ELSE None
    /\ tasks' = [tasks EXCEPT ![t] =
                   IF tasks[t].op = "cached"
                      THEN cached_lookup(tasks[t], call'.ret, call'.log)
                      ELSE [tasks[t] EXCEPT !.pc = "done",
                                            !.ret = call'.ret,
                                            !.log = call'.log]]
    /\ UNCHANGED <<pc, before, bot>>

\* The locked section of get(), then the release of the lock.
locked_get(t) ==
    /\ tasks[t].pc = "held"
    /\ tasks[t].method = "get"
    /\ get(tasks[t].key)
    /\ lock' = None
    /\ tasks' = [tasks EXCEPT ![t] =
                   IF tasks[t].op = "cached"
                      THEN cached_lookup(tasks[t], call'.ret, call'.log)
                      ELSE [tasks[t] EXCEPT !.pc = "done",
                                            !.ret = call'.ret,
                                            !.log = call'.log]]
    /\ UNCHANGED <<pc, before, bot>>

\* The locked section of set() that leaves an entry created later, or at
\* the same time, where it is.
set_locked_keeping_newer(key, entry, cache_type) ==
    /\ Counted < MaxOps
    /\ cache' = IF key \in DOMAIN cache
                   /\ cache[key].created_at >= entry.created_at
                   THEN cache
                   ELSE Put(cache, key, entry)
    /\ stats' = [stats EXCEPT !.sets = @ + 1]
    /\ call' = Result("set", key, entry.value, cache_type, None, "set")
    /\ stored' = [stored EXCEPT ![key] =
                     [value |-> entry.value, cache_type |-> cache_type,
                      at |-> entry.created_at]]
    /\ run' = StartRun("set", key, entry.value, cache_type)
    /\ UNCHANGED now

\* The locked section of set() that does not count the call.
set_locked_uncounted(key, entry, cache_type) ==
    /\ Counted < MaxOps
    /\ cache' = Put(cache, key, entry)
    /\ call' = Result("set", key, entry.value, cache_type, None, "set")
    /\ stored' = [stored EXCEPT ![key] =
                     [value |-> entry.value, cache_type |-> cache_type,
                      at |-> entry.created_at]]
    /\ run' = StartRun("set", key, entry.value, cache_type)
    /\ UNCHANGED <<stats, now>>

\* The locked section of set(): the entry built before the lock is stored.
set_locked(key, entry, cache_type) ==
    /\ Counted < MaxOps
    /\ cache' = Put(cache, key, entry)
    /\ stats' = [stats EXCEPT !.sets = @ + 1]
    /\ call' = Result("set", key, entry.value, cache_type, None, "set")
    /\ stored' = [stored EXCEPT ![key] =
                     [value |-> entry.value, cache_type |-> cache_type,
                      at |-> entry.created_at]]
    /\ run' = StartRun("set", key, entry.value, cache_type)
    /\ UNCHANGED now

\* The locked section of set(), then the release of the lock; the wrapper
\* returns the result it stored.
locked_set(t) ==
    /\ tasks[t].pc = "held"
    /\ tasks[t].method = "set"
    /\ set_locked(tasks[t].key, tasks[t].entry, tasks[t].cache_type)
    /\ lock' = None
    /\ tasks' = [tasks EXCEPT ![t].pc = "done",
                              ![t].did_set = TRUE,
                              ![t].log = "set",
                              ![t].ret = IF tasks[t].op = "cached"
                                            THEN tasks[t].result
                                            ELSE None]
    /\ UNCHANGED <<pc, before, bot>>

\* The locked section of delete(), then the release of the lock.
locked_delete(t) ==
    /\ tasks[t].pc = "held"
    /\ tasks[t].method = "delete"
    /\ delete(tasks[t].key)
    /\ lock' = None
    /\ tasks' = [tasks EXCEPT ![t].pc = "done",
                              ![t].ret = call'.ret,
                              ![t].log = call'.log]
    /\ UNCHANGED <<pc, before, bot>>

\* The locked section of clear(), then the release of the lock.
locked_clear(t) ==
    /\ tasks[t].pc = "held"
    /\ tasks[t].method = "clear"
    /\ clear(tasks[t].cache_type)
    /\ lock' = None
    /\ tasks' = [tasks EXCEPT ![t].pc = "done",
                              ![t].ret = call'.ret,
                              ![t].log = call'.log]
    /\ UNCHANGED <<pc, before, bot>>

\* The locked section of cleanup_expired(), then the release of the lock.
locked_cleanup_expired(t) ==
    /\ tasks[t].pc = "held"
    /\ tasks[t].method = "cleanup_expired"
    /\ cleanup_expired
    /\ lock' = None
    /\ tasks' = [tasks EXCEPT ![t].pc = "done",
                              ![t].ret = call'.ret,
                              ![t].log = call'.log]
    /\ UNCHANGED <<pc, before, bot>>

\* The locked section of get_stats(), then the release of the lock.
locked_get_stats(t) ==
    /\ tasks[t].pc = "held"
    /\ tasks[t].method = "get_stats"
    /\ get_stats
    /\ lock' = None
    /\ tasks' = [tasks EXCEPT ![t].pc = "done",
                              ![t].ret = call'.ret,
                              ![t].log = call'.log]
    /\ UNCHANGED <<pc, before, bot>>

\* The wrapped function returns result: the wrapper calls set() if it is
\* not None (set() builds the entry before it asks for the lock) and
\* returns it otherwise.
returned(t, result) ==
    /\ tasks[t].pc = "fetch"
    /\ tasks' = [tasks EXCEPT ![t] =
                   IF result # None
                      THEN [tasks[t] EXCEPT
                              !.pc = "wait",
                              !.method = "set",
                              !.result = result,
                              !.entry = CacheEntry(result,
                                           DurationsGet(tasks[t].cache_type))]
                      ELSE [tasks[t] EXCEPT !.pc = "done",
                                            !.result = result,
                                            !.ret = result]]
    /\ UNCHANGED <<cache, stats, now, call, stored, run, pc, lock, before,
                   bot>>

\* Entries are stored one call after the other, then tasks are gathered
\* and run in any order the lock allows, while time passes.
NextTasks ==
    \/ \E key \in TaskKeys, cache_type \in TaskTypes :
          /\ ~before.gathered
          /\ Counted < MaxPrior
          /\ set(key, "value1", cache_type)
          /\ UNCHANGED callers
    \/ gather
    \/ \E t \in Tasks : build(t)
    \/ \E t \in Tasks : acquire(t)
    \/ \E t \in Tasks : locked_get(t)
    \/ \E t \in Tasks : locked_set(t)
    \/ \E t \in Tasks : locked_delete(t)
    \/ \E t \in Tasks : locked_clear(t)
    \/ \E t \in Tasks : locked_cleanup_expired(t)
    \/ \E t \in Tasks : locked_get_stats(t)
    \/ \E t \in Tasks : \E result \in Results(t) : returned(t, result)
    \/ \E t \in Instants : Tick(t) /\ UNCHANGED callers

SpecTasks == Init /\ [][NextTasks]_vars

-----------------------------------------------------------------------------
(* tests/test_cache.py: test_cache_statistics, run after other calls *)

\* The calls test_cache_statistics makes, in order.
StatsTest ==
    << [op |-> "clear_cache",     key |-> None,          value |-> None],
       [op |-> "set_cached",      key |-> "stat_test_1", value |-> "value1"],
       [op |-> "set_cached",      key |-> "stat_test_2", value |-> "value2"],
       [op |-> "get_cached",      key |-> "stat_test_1", value |-> None],
       [op |-> "get_cached",      key |-> "stat_test_1", value |-> None],
       [op |-> "get_cached",      key |-> "non_existent", value |-> None],
       [op |-> "delete_cached",   key |-> "stat_test_2", value |-> None],
       [op |-> "get_cache_stats", key |-> None,          value |-> None] >>

\* The convenience functions: each hands its call to the global manager.
Convenience(c) ==
    CASE c.op = "clear_cache"     -> clear(None)
      [] c.op = "set_cached"      -> set(c.key, c.value, "default")
      [] c.op = "get_cached"      -> get(c.key)
      [] c.op = "delete_cached"   -> delete(c.key)
      [] c.op = "get_cache_stats" -> get_stats

\* The next statement of test_cache_statistics.
test_cache_statistics ==
    /\ pc < Len(StatsTest)
    /\ Convenience(StatsTest[pc + 1])
    /\ pc' = pc + 1
    /\ UNCHANGED <<lock, tasks, before, bot>>

\* Calls of the program (the tests that ran before), then the test.
NextStatsTest ==
    \/ /\ pc = 0
       /\ Counted < MaxPrior
       /\ Next
    \/ test_cache_statistics

SpecStatsTest == Init /\ [][NextStatsTest]_vars

-----------------------------------------------------------------------------
(* The fetchers that cache by hand: get_cached, fetch, set_cached *)

\* get_weekly_cache_key(), week_start being the Monday of the current week
\* as %Y%m%d
get_weekly_cache_key(week_start) == "weekly_matches_" \o week_start

\* A fetcher called for key: it returns what get_cached(key) finds; on a
\* miss (an expired entry is removed by the get) it fetches value and
\* calls set_cached(key, value, cache_type).
fetcher(key, value, cache_type) ==
    /\ Counted < MaxOps
    /\ key \in FetcherKeys
    /\ IF key \in DOMAIN cache /\ ~is_expired(cache[key]) THEN
          /\ cache' = [cache EXCEPT ![key] = access(cache[key])]
          /\ stats' = [stats EXCEPT !.hits = @ + 1]
          /\ call' = Result("get", key, None, None, cache[key].value, "hit")
          /\ stored' = stored
          /\ run' = NoRun
       ELSE
          /\ cache' = Put(cache, key,
                          CacheEntry(value, DurationsGet(cache_type)))
          /\ stats' = [stats EXCEPT !.misses = @ + 1, !.sets = @ + 1]
          /\ call' = Result("set", key, value, cache_type, None, "set")
          /\ stored' = [stored EXCEPT ![key] =
                           [value |-> value, cache_type |-> cache_type,
                            at |-> now]]
          /\ run' = StartRun("set", key, value, cache_type)
    /\ UNCHANGED now

\* The fetchers of api/sportsdb, of the weekly command and of the
\* performance test, each with its key and its cache type, and clear() of
\* each cache type of the table.
NextFetchers ==
    \/ \E team_name \in {"galaxy", "dodgers"} :
          /\ fetcher(team_metadata_key(team_name), "value1", "team_metadata")
          /\ UNCHANGED callers
    \/ \E team_id \in TeamIds :
          /\ fetcher(team_logos_key(team_id), "value1", "team_logos")
          /\ UNCHANGED callers
    \/ /\ fetcher(venue_data_key("Dignity Health Sports Park"), "value1",
                  "venue_data")
       /\ UNCHANGED callers
    \/ /\ fetcher(game_data_key("galaxy", "soccer", "20240101", "20240107"),
                  "value1", "game_data")
       /\ UNCHANGED callers
    \/ \E week_start \in Dates :
          /\ fetcher(get_weekly_cache_key(week_start), "value1", "game_data")
          /\ UNCHANGED callers
    \/ \E cache_type \in DOMAIN CACHE_DURATIONS :
          clear(cache_type) /\ UNCHANGED callers
    \/ \E t \in Instants : Tick(t) /\ UNCHANGED callers

SpecFetchers == Init /\ [][NextFetchers]_vars

-----------------------------------------------------------------------------
(* The bot commands that use the cache: !cache and /cachetest *)

\* has_admin_permissions(context): the caller is on the user ID whitelist,
\* or is administrator or owner of the guild the command came from.
has_admin_permissions(user) ==
    \/ user.whitelisted
    \/ user.guild /\ user.administrator
    \/ user.guild /\ user.owner

\* require_admin_permissions(context): the same answer; a caller who is
\* refused is sent "Access Denied".
require_admin_permissions(user) == has_admin_permissions(user)

\* The actions !cache is called with (None: no action, the help text).
Actions == {None, "stats", "clear", "cleanup"}

\* The choices of /cachetest the model runs.
TestTypes == {"basic"}

\* What is known of a command: who called it, what the permission check
\* said, how far the handler is (0: it returned), its last cache call.
Handled(name, action, caller, check, position, did) ==
    [ name |-> name, action |-> action, caller |-> caller, check |-> check,
      pc |-> position, did |-> did ]

\* cache_command(ctx, action), the handler of !cache
cache_command(caller, action) ==
    /\ cmd.pc = 0
    /\ IF ~require_admin_permissions(caller) THEN
          /\ cmd' = Handled("cache", action, caller, "denied", 0, None)
          /\ UNCHANGED <<cache, stats, now, call, stored, run>>
       ELSE IF action = "stats" THEN
          /\ get_stats
          /\ cmd' = Handled("cache", action, caller, "granted", 0, call'.op)
       ELSE IF action = "clear" THEN
          /\ clear(None)
          /\ cmd' = Handled("cache", action, caller, "granted", 0, call'.op)
       ELSE IF action = "cleanup" THEN
          /\ cleanup_expired
          /\ cmd' = Handled("cache", action, caller, "granted", 0, call'.op)
       ELSE
          /\ cmd' = Handled("cache", action, caller, "granted", 0, None)
          /\ UNCHANGED <<cache, stats, now, call, stored, run>>
    /\ UNCHANGED <<pc, lock, tasks, before, sweeper, previous>>

\* The calls run_basic_cache_test makes, in order.
BasicTest ==
    << [op |-> "clear_cache",     key |-> None,            value |-> None],
       [op |-> "set_cached",      key |-> "test_basic_1",  value |-> "test"],
       [op |-> "get_cached",      key |-> "test_basic_1",  value |-> None],
       [op |-> "get_cached",      key |-> "non_existent_key",
                                                            value |-> None],
       [op |-> "get_cache_stats", key |-> None,            value |-> None] >>

\* cache_test_command(interaction, test_type), the handler of /cachetest,
\* up to the first statement of the test it runs: await clear_cache()
cache_test_command(caller, test_type) ==
    /\ cmd.pc = 0
    /\ test_type = "basic"
    /\ Convenience(BasicTest[1])
    /\ cmd' = Handled("cachetest", test_type, caller, "unchecked", 1,
                      call'.op)
    /\ UNCHANGED <<pc, lock, tasks, before, sweeper, previous>>

\* The next statement of run_basic_cache_test; after the last one the
\* handler sends the report and returns.
run_basic_cache_test ==
    /\ cmd.name = "cachetest"
    /\ cmd.pc > 0
    /\ Convenience(BasicTest[cmd.pc + 1])
    /\ cmd' = [cmd EXCEPT !.pc = IF cmd.pc + 1 = Len(BasicTest)
                                    THEN 0
                                    ELSE cmd.pc + 1,
                          !.did = call'.op]
    /\ UNCHANGED <<pc, lock, tasks, before, sweeper, previous>>

\* Entries are stored, time passes, and users of every kind send commands.
NextCommands ==
    \/ \E key \in TaskKeys, cache_type \in TaskTypes :
          /\ cmd.pc = 0
          /\ Counted < MaxPrior
          /\ set(key, "value1", cache_type)
          /\ UNCHANGED callers
    \/ \E t \in Instants : cmd.pc = 0 /\ Tick(t) /\ UNCHANGED callers
    \/ \E caller \in Users, action \in Actions : cache_command(caller, action)
    \/ \E caller \in Users, test_type \in TestTypes :
          cache_test_command(caller, test_type)
    \/ run_basic_cache_test

SpecCommands == Init /\ [][NextCommands]_vars

-----------------------------------------------------------------------------
(* cache_cleanup_task, the background task that sweeps expired entries *)

\* The position of the clean-up task after a step: what it waits for next,
\* what it did last, and whether it has logged an exception so far.
At(position, last) ==
    [pc |-> position, last |-> last,
     logged_error |-> sweeper.logged_error \/ last = "fault"]

\* The task is started: it logs and enters the loop, asleep for 5 minutes.
sweeper_start ==
    /\ sweeper.pc = "idle"
    /\ sweeper' = At("sleep", "started")
    /\ UNCHANGED <<cache, stats, now, call, stored, run, pc, lock, tasks,
                   before, cmd, previous>>

\* await asyncio.sleep(300) returns: the task is at the call of
\* cleanup_expired_cache().
sweeper_sleep ==
    /\ sweeper.pc = "sleep"
    /\ sweeper' = At("cleanup", "slept")
    /\ UNCHANGED <<cache, stats, now, call, stored, run, pc, lock, tasks,
                   before, cmd, previous>>

\* The task going back to sleep without a call of cleanup_expired_cache().
sweeper_cleanup_skipped ==
    /\ sweeper.pc = "cleanup"
    /\ sweeper' = At("sleep", "cleaned")
    /\ UNCHANGED <<cache, stats, now, call, stored, run, pc, lock, tasks,
                   before, cmd, previous>>

\* cleaned_count = await cleanup_expired_cache(), and round the loop.
sweeper_cleanup ==
    /\ sweeper.pc = "cleanup"
    /\ cleanup_expired
    /\ sweeper' = At("sleep", "cleaned")
    /\ UNCHANGED <<pc, lock, tasks, before, cmd, previous>>

\* An exception that leaves the loop instead of being caught.
sweeper_fault_propagating ==
    /\ sweeper.pc \in {"sleep", "cleanup"}
    /\ sweeper' = At("ended", "fault")
    /\ UNCHANGED <<cache, stats, now, call, stored, run, pc, lock, tasks,
                   before, cmd, previous>>

\* The sleep or the call of cleanup_expired_cache() raises an exception:
\* "except Exception" catches it, logs it and waits a minute.
sweeper_fault ==
    /\ sweeper.pc \in {"sleep", "cleanup"}
    /\ sweeper' = At("backoff", "fault")
    /\ UNCHANGED <<cache, stats, now, call, stored, run, pc, lock, tasks,
                   before, cmd, previous>>

\* await asyncio.sleep(60) in the handler returns: the next iteration.
sweeper_backoff ==
    /\ sweeper.pc = "backoff"
    /\ sweeper' = At("sleep", "backed off")
    /\ UNCHANGED <<cache, stats, now, call, stored, run, pc, lock, tasks,
                   before, cmd, previous>>

\* A program that stores and reads entries while the clean-up task runs and
\* time passes. The clock has the granularity of Instants: a sleep of the
\* task ends at one of them or between two of them.
NextSweeper ==
    \/ \E key \in TaskKeys, cache_type \in TaskTypes :
          /\ Counted < MaxPrior
          /\ set(key, "value1", cache_type)
          /\ UNCHANGED callers
    \/ \E key \in TaskKeys :
          /\ Counted < MaxPrior
          /\ get(key)
          /\ UNCHANGED callers
    \/ \E t \in Instants : Tick(t) /\ UNCHANGED callers
    \/ sweeper_start
    \/ sweeper_sleep
    \/ sweeper_cleanup
    \/ sweeper_fault
    \/ sweeper_backoff

\* The event loop runs every task that is ready: a sleep that has run out
\* returns, a handler that is ready runs (weak fairness). Exceptions are
\* occasional: a sleep that is started again and again returns normally at
\* some time, and so does a call of cleanup_expired (strong fairness).
SweeperFairness ==
    /\ WF_vars(sweeper_backoff)
    /\ SF_vars(sweeper_sleep)
    /\ SF_vars(sweeper_cleanup)

SpecSweeper == Init /\ [][NextSweeper]_vars /\ SweeperFairness

-----------------------------------------------------------------------------
(* Properties *)

\* The step is the return of a call of op (a clock advance is no call).
Completed(op) == call'.op = op /\ now' = now

\* The TTL table holds the cache type.
HasTTL(cache_type) == cache_type \in DOMAIN CACHE_DURATIONS

\* The entry that the set at the start of the run stored has no TTL, or its
\* TTL has not run out.
RunLive ==
    \/ ~HasTTL(run.cache_type)
    \/ now <= run.at + CACHE_DURATIONS[run.cache_type]

\* C1. Set/get round trip: a get(key) that directly follows
\* set(key, value, "default") returns that value, counts one hit and no
\* miss, and leaves the entry's access_count at 1.
C1_SetGetRoundTrip ==
    [][ \A key \in Keys :
          ( /\ call.op = "set"
            /\ call.key = key
            /\ call.cache_type = "default"
            /\ Completed("get")
            /\ call'.key = key )
          => /\ call'.ret = call.value
             /\ stats'.hits = stats.hits + 1
             /\ stats'.misses = stats.misses
             /\ key \in DOMAIN cache'
             /\ cache'[key].access_count = 1 ]_vars

\* A get has returned the value that the set right before it stored as
\* "default".
C1_Witness ==
    /\ run.op = "set"
    /\ run.n = 1
    /\ run.cache_type = "default"
    /\ call.op = "get"
    /\ call.ret = run.value

\* C2. Miss on an absent key: get(key) for a key that is not in the entry
\* map returns None, increments misses by exactly 1 and leaves hits, sets,
\* deletes, clears and the entry map unchanged.
C2_MissOnAbsentKey ==
    [][ \A key \in Keys :
          ( /\ key \notin DOMAIN cache
            /\ Completed("get")
            /\ call'.key = key )
          => /\ call'.ret = None
             /\ stats' = [stats EXCEPT !.misses = @ + 1]
             /\ cache' = cache ]_vars

\* A get of an absent key has returned while other keys hold entries.
C2_Witness ==
    /\ call.op = "get"
    /\ call.log = "miss"
    /\ call.key \notin DOMAIN cache
    /\ cache # EmptyDict
    /\ stats.misses = 1

\* C3. Repeated reads: N get(key) calls in a row on an entry that set stored
\* and that is live (it has no TTL, or its TTL has not run out), with no
\* other call in between, each return the stored value, increase hits by
\* exactly N, leave misses and the stored value unchanged, and leave the
\* entry's access_count equal to N.
C3_RepeatedReads ==
    ( /\ run.op = "set"
      /\ RunLive )
    => /\ stats.hits = run.hits0 + run.n
       /\ stats.misses = run.misses0
       /\ run.key \in DOMAIN cache
       /\ cache[run.key].value = run.value
       /\ cache[run.key].access_count = run.n
       /\ run.n > 0 => ( /\ call.op = "get"
                         /\ call.key = run.key
                         /\ call.ret = run.value )

\* Two reads in a row of an entry without TTL have returned, the clock
\* having moved on since the set.
C3_Witness ==
    /\ run.op = "set"
    /\ run.n >= 2
    /\ ~HasTTL(run.cache_type)
    /\ now > run.at
    /\ call.op = "get"

\* C4. Lazy expiry on read: for an entry stored with a cache type whose TTL
\* is T, a get(key) at a clock value strictly greater than created_at + T
\* returns None, removes the entry (and only it) from the map, increments
\* misses by 1 and does not increment hits.
C4_LazyExpiryOnRead ==
    [][ \A key \in DOMAIN cache :
          ( /\ HasTTL(stored[key].cache_type)
            /\ now > stored[key].at + CACHE_DURATIONS[stored[key].cache_type]
            /\ Completed("get")
            /\ call'.key = key )
          => /\ call'.ret = None
             /\ cache' = DelKeys(cache, {key})
             /\ Cardinality(DOMAIN cache') = Cardinality(DOMAIN cache) - 1
             /\ stats'.misses = stats.misses + 1
             /\ stats'.hits = stats.hits ]_vars

\* A get has found its entry past its TTL and removed it.
C4_Witness ==
    /\ call.op = "get"
    /\ call.log = "expired"
    /\ call.ret = None
    /\ call.key \notin DOMAIN cache
    /\ stats.misses = 1
    /\ stats.sets >= 1

\* C5. No premature expiry: an entry stored with TTL T is expired only when
\* now > created_at + T; at any clock value up to and including
\* created_at + T a get(key) is a hit that returns the stored value and
\* keeps the entry, and cleanup_expired does not remove or change it.
C5_NoPrematureExpiry ==
    [][ \A key \in DOMAIN cache :
          ( /\ HasTTL(stored[key].cache_type)
            /\ now <= stored[key].at
                         + CACHE_DURATIONS[stored[key].cache_type] )
          => /\ ~is_expired(cache[key])
             /\ (Completed("get") /\ call'.key = key)
                   => /\ call'.ret = stored[key].value
                      /\ stats'.hits = stats.hits + 1
                      /\ stats'.misses = stats.misses
                      /\ key \in DOMAIN cache'
             /\ Completed("cleanup_expired")
                   => /\ key \in DOMAIN cache'
                      /\ cache'[key] = cache[key] ]_vars

\* A get at the last instant of the entry's TTL has returned its value.
C5_Witness ==
    /\ call.op = "get"
    /\ call.log = "hit"
    /\ HasTTL(stored[call.key].cache_type)
    /\ now = stored[call.key].at
                + CACHE_DURATIONS[stored[call.key].cache_type]
    /\ call.ret = stored[call.key].value

\* C6. No-TTL permanence: set never rejects a cache type the table does not
\* hold ("default" included) and stores the entry without expiry; at any
\* clock value such an entry is returned by get, and a step that removes it
\* is a delete or a clear, one that changes its value a set.
C6_NoTTLPermanence ==
    [][ /\ \A key \in Keys :
             ( /\ Completed("set")
               /\ call'.key = key
               /\ ~HasTTL(call'.cache_type) )
             => /\ key \in DOMAIN cache'
                /\ cache'[key].value = call'.value
                /\ cache'[key].ttl = NoneInt
                /\ cache'[key].expires_at = NoneInt
        /\ \A key \in DOMAIN cache :
             ~HasTTL(stored[key].cache_type)
             => /\ ~is_expired(cache[key])
                /\ (Completed("get") /\ call'.key = key)
                      => call'.ret = stored[key].value
                /\ key \notin DOMAIN cache'
                      => call'.op \in {"delete", "clear"}
                /\ (key \in DOMAIN cache'
                      /\ cache'[key].value # cache[key].value)
                      => (call'.op = "set" /\ call'.key = key) ]_vars

\* A get has returned an entry stored with a cache type outside the table,
\* longer after the set than a game_data TTL.
C6_Witness ==
    /\ call.op = "get"
    /\ stored[call.key].cache_type = "unknown_type"
    /\ now > stored[call.key].at + CACHE_DURATIONS["game_data"]
    /\ call.ret = stored[call.key].value

\* C7. Overwrite: set(key, v2, c2) on a key that holds an entry replaces it
\* whatever it was: the new entry holds v2, has access_count 0, was created
\* now and expires at now + the TTL of c2 (never, if c2 has none); the keys
\* of the map are the same and sets is incremented by exactly 1; a get(key)
\* that directly follows, the new entry being live, returns v2.
C7_Overwrite ==
    [][ /\ \A key \in DOMAIN cache :
             ( /\ Completed("set")
               /\ call'.key = key )
             => /\ cache'[key].value = call'.value
                /\ cache'[key].access_count = 0
                /\ cache'[key].created_at = now
                /\ cache'[key].expires_at =
                      IF HasTTL(call'.cache_type)
                         THEN now + CACHE_DURATIONS[call'.cache_type]
                         ELSE NoneInt
                /\ DOMAIN cache' = DOMAIN cache
                /\ stats'.sets = stats.sets + 1
        /\ ( /\ run.op = "set"
             /\ run.n = 0
             /\ run.replaced # None
             /\ RunLive
             /\ Completed("get")
             /\ call'.key = run.key )
           => call'.ret = run.value ]_vars

\* A get has returned the value of a set that, later than the first set,
\* replaced an entry stored with another cache type.
C7_Witness ==
    /\ run.op = "set"
    /\ run.n = 1
    /\ run.at > 0
    /\ run.replaced \notin {None, run.cache_type}
    /\ call.op = "get"
    /\ call.ret = run.value
    /\ stats.sets = 2

\* C8. delete: delete(key) on a key that is not in the map returns false
\* and changes no counter and no entry; delete(key) on a present key
\* returns true, removes exactly that entry and increments deletes (and no
\* other counter) by exactly 1; a get(key) that follows is a miss.
C8_Delete ==
    [][ /\ \A key \in Keys :
             ( /\ Completed("delete")
               /\ call'.key = key )
             => IF key \in DOMAIN cache
                   THEN /\ call'.ret = TRUE
                        /\ cache' = DelKeys(cache, {key})
                        /\ stats' = [stats EXCEPT !.deletes = @ + 1]
                   ELSE /\ call'.ret = FALSE
                        /\ cache' = cache
                        /\ stats' = stats
        /\ ( /\ run.op = "delete"
             /\ Completed("get")
             /\ call'.key = run.key )
           => /\ call'.ret = None
              /\ stats'.misses = stats.misses + 1
              /\ stats'.hits = stats.hits ]_vars

\* A key was deleted from the map, and the get of it that followed missed.
C8_Witness ==
    /\ run.op = "delete"
    /\ run.n = 1
    /\ call.op = "get"
    /\ call.ret = None
    /\ stats.deletes = 1
    /\ stats.misses = run.misses0 + 1

\* C9. clear() without a cache type removes every entry, expired or not,
\* returns the number of entries the map held just before the call and
\* increments clears by 1; no call but set adds a key to the map and
\* get_stats reports the number of keys in the map, so that a get_stats
\* that follows with no set in between reports total_entries = 0.
C9_ClearAll ==
    [][ /\ ( /\ Completed("clear")
             /\ call'.cache_type = None )
           => /\ cache' = EmptyDict
              /\ call'.ret = Cardinality(DOMAIN cache)
              /\ stats'.clears = stats.clears + 1
        /\ ~Completed("set") => DOMAIN cache' \subseteq DOMAIN cache
        /\ Completed("get_stats")
           => call'.ret.total_entries = Cardinality(DOMAIN cache)
        /\ ( /\ call.op = "clear"
             /\ call.cache_type = None
             /\ Completed("get_stats") )
           => call'.ret.total_entries = 0 ]_vars

\* clear() has emptied a map of two entries, at a clock value past a
\* game_data TTL, and returned 2.
C9_Witness ==
    /\ call.op = "clear"
    /\ call.cache_type = None
    /\ call.ret = 2
    /\ cache = EmptyDict
    /\ stats.sets = 2
    /\ now > CACHE_DURATIONS["game_data"]

\* s begins with prefix, character by character.
BeginsWith(s, prefix) ==
    /\ Len(s) >= Len(prefix)
    /\ \A i \in 1..Len(prefix) : SubSeq(s, i, i) = SubSeq(prefix, i, i)

\* C10. Selective clear: clear(cache_type) removes exactly the entries whose
\* key begins with cache_type followed by "_", returns how many it removed,
\* increments clears (and no other counter) by 1, also when it removes
\* nothing, and leaves every other entry as it was.
C10_SelectiveClear ==
    [][ \A cache_type \in ClearTypes \ {None} :
          ( /\ Completed("clear")
            /\ call'.cache_type = cache_type )
          => LET removed == {k \in DOMAIN cache :
                               BeginsWith(k, cache_type \o "_")}
             IN  /\ cache' = DelKeys(cache, removed)
                 /\ call'.ret = Cardinality(removed)
                 /\ stats' = [stats EXCEPT !.clears = @ + 1] ]_vars

\* clear("game_data") has removed one key, "game_data_a", and left
\* "team_logos_a" in the map.
C10_Witness ==
    /\ call.op = "clear"
    /\ call.cache_type = "game_data"
    /\ call.ret = 1
    /\ "game_data_a" \notin DOMAIN cache
    /\ "team_logos_a" \in DOMAIN cache

\* The entry of key was stored with a TTL that has run out.
PastTTL(key) ==
    /\ HasTTL(stored[key].cache_type)
    /\ now > stored[key].at + CACHE_DURATIONS[stored[key].cache_type]

\* The five counters that get_stats reports.
Counters == {"hits", "misses", "sets", "deletes", "clears"}

\* C11. cleanup_expired() removes exactly the entries that are expired when
\* it is called and returns how many they are; every other entry keeps its
\* value, access_count and last_accessed; hits, misses, sets, deletes and
\* clears are unchanged.
C11_CleanupExpired ==
    [][ Completed("cleanup_expired")
        => LET expired == {k \in DOMAIN cache : PastTTL(k)}
           IN  /\ DOMAIN cache' = DOMAIN cache \ expired
               /\ call'.ret = Cardinality(expired)
               /\ \A k \in DOMAIN cache \ expired :
                     /\ cache'[k].value = cache[k].value
                     /\ cache'[k].access_count = cache[k].access_count
                     /\ cache'[k].last_accessed = cache[k].last_accessed
               /\ \A c \in Counters : stats'[c] = stats[c] ]_vars

\* cleanup_expired() has removed one expired entry and kept an entry whose
\* TTL is still running.
C11_Witness ==
    /\ call.op = "cleanup_expired"
    /\ call.ret = 1
    /\ \E k \in DOMAIN cache :
          /\ HasTTL(stored[k].cache_type)
          /\ ~PastTTL(k)
    /\ stats.sets = 2

StatsTestDone == pc = Len(StatsTest)

\* C13. Statistics after a full clear, as test_cache_statistics asserts
\* them: whatever calls were made before its clear_cache(), the
\* get_cache_stats() at the end of the test reports sets = 2, hits = 2,
\* misses = 1 and deletes = 1, the calls made since the clear.
C13_StatsCountSinceClear ==
    StatsTestDone
    => /\ call.ret.sets = 2
       /\ call.ret.hits = 2
       /\ call.ret.misses = 1
       /\ call.ret.deletes = 1

\* C14. get_stats arithmetic: total_requests = hits + misses, total_entries
\* is the size of the map, hit_rate is hits / (hits + misses) * 100 rounded
\* to two decimals (0 when there was no request) and lies in [0, 100].
\* hit_rate is held in hundredths of a percent.
C14_StatsArithmetic ==
    call.op = "get_stats"
    => LET r == call.ret
       IN  /\ r.hits = stats.hits
           /\ r.misses = stats.misses
           /\ r.total_requests = stats.hits + stats.misses
           /\ r.total_entries = Cardinality(DOMAIN cache)
           /\ r.hit_rate >= 0
           /\ r.hit_rate <= 100 * 100
           /\ IF r.total_requests = 0
                 THEN r.hit_rate = 0
                 ELSE LET exact == r.hits * 100 * 100
                          got == r.hit_rate * r.total_requests
                      IN  /\ 2 * (got - exact) <= r.total_requests
                          /\ 2 * (exact - got) <= r.total_requests

\* get_stats has reported two hits in three requests as 66.67 percent, with
\* one entry in the map.
C14_Witness ==
    /\ call.op = "get_stats"
    /\ call.ret.hits = 2
    /\ call.ret.total_requests = 3
    /\ call.ret.hit_rate = 6667
    /\ call.ret.total_entries = 1

\* The white space characters of the names used here.
Whitespace == {" ", "\t", "\n"}

\* str.lstrip(), str.rstrip() and str.strip()
RECURSIVE lstrip(_)
lstrip(s) ==
    IF Len(s) > 0 /\ SubSeq(s, 1, 1) \in Whitespace
       THEN lstrip(SubSeq(s, 2, Len(s)))
       ELSE s

RECURSIVE rstrip(_)
rstrip(s) ==
    IF Len(s) > 0 /\ SubSeq(s, Len(s), Len(s)) \in Whitespace
       THEN rstrip(SubSeq(s, 1, Len(s) - 1))
       ELSE s

strip(s) == rstrip(lstrip(s))

\* C19. Name-key normalization: the name keys ignore case and map white
\* space to underscores, so that names that differ only in case or white
\* space get one key: team_logos_by_name_key of "LA Galaxy", of "la galaxy"
\* and of " LA   Galaxy ".strip() are all "team_logos_name_la_galaxy".
C19_NameKeysCollide ==
    ( /\ call.op = "team_logos_by_name_key"
      /\ call.value[1] \in {"LA Galaxy", "la galaxy",
                             strip(" LA   Galaxy ")} )
    => call.ret = "team_logos_name_la_galaxy"


\* The lower-case letter of each upper-case letter.
LowerOf ==
    [A |-> "a", B |-> "b", C |-> "c", D |-> "d", E |-> "e", F |-> "f",
     G |-> "g", H |-> "h", I |-> "i", J |-> "j", K |-> "k", L |-> "l",
     M |-> "m", N |-> "n", O |-> "o", P |-> "p", Q |-> "q", R |-> "r",
     S |-> "s", T |-> "t", U |-> "u", V |-> "v", W |-> "w", X |-> "x",
     Y |-> "y", Z |-> "z"]

\* key is prefix followed by norm(name): as many characters as name has,
\* each space as "_", each upper-case letter as its lower-case letter, any
\* other character as it is.
IsNormKey(key, prefix, name) ==
    /\ Len(key) = Len(prefix) + Len(name)
    /\ SubSeq(key, 1, Len(prefix)) = prefix
    /\ \A i \in 1..Len(name) :
          LET c == SubSeq(name, i, i)
              k == SubSeq(key, Len(prefix) + i, Len(prefix) + i)
          IN  k = IF c = " " THEN "_"
                  ELSE IF c \in DOMAIN LowerOf THEN LowerOf[c]
                  ELSE c

\* C20. Key formats: game_data_key(t, s, a, b) is "game_data_" t "_" s "_"
\* a "_" b, team_logos_key(id) is "team_logos_" id, venue_data_key(n) is
\* "venue_data_" norm(n), team_metadata_key(n) is "team_metadata_" norm(n)
\* and team_name_key(r) is "team_name_" r with r as given; the key depends
\* on the arguments alone, and a generator changes nothing of the cache.
C20_KeyFormats ==
    [][ call'.op \in KeyGenerators
        => LET a == call'.value
               key == call'.ret
           IN  /\ call'.op = "game_data_key"
                     => /\ SubSeq(key, 1, 10) = "game_data_"
                        /\ SubSeq(key, 11, Len(key)) =
                              a[1] \o "_" \o a[2] \o "_" \o a[3]
                                 \o "_" \o a[4]
               /\ call'.op = "team_logos_key"
                     => /\ SubSeq(key, 1, 11) = "team_logos_"
                        /\ SubSeq(key, 12, Len(key)) = a[1]
               /\ call'.op = "venue_data_key"
                     => IsNormKey(key, "venue_data_", a[1])
               /\ call'.op = "team_metadata_key"
                     => IsNormKey(key, "team_metadata_", a[1])
               /\ call'.op = "team_name_key"
                     => /\ SubSeq(key, 1, 10) = "team_name_"
                        /\ SubSeq(key, 11, Len(key)) = a[1]
               /\ (call.op = call'.op /\ call.value = a)
                     => key = call.ret
               /\ UNCHANGED <<cache, stats, now, stored>> ]_vars

\* venue_data_key has returned the key of "Dignity Health Sports Park"
\* while the cache holds an entry.
C20_Witness ==
    /\ call.op = "venue_data_key"
    /\ call.value = <<"Dignity Health Sports Park">>
    /\ call.ret = "venue_data_dignity_health_sports_park"
    /\ cache # EmptyDict

\* The gathered tasks have all returned.
AllDone ==
    /\ before.gathered
    /\ \A t \in Tasks : tasks[t].pc = "done"

\* The tasks whose call is op.
TasksOf(op) == {t \in Tasks : tasks[t].op = op}

\* C15. Concurrent sets of one key: when two tasks set the same key
\* concurrently, then in every interleaving the key holds one entry
\* afterwards, the entry of the set that took the lock last, sets has grown
\* by exactly 2 and the map has no other new key.
C15_ConcurrentSetsSameKey ==
    ( /\ AllDone
      /\ TasksOf("set") = Tasks
      /\ \A t, u \in Tasks : tasks[t].key = tasks[u].key )
    => LET last == CHOOSE t \in Tasks : tasks[t].value = call.value
           key == tasks[last].key
       IN  /\ call.op = "set"
           /\ key \in DOMAIN cache
           /\ cache[key] = tasks[last].entry
           /\ cache[key].value = OwnValue[last]
           /\ stats.sets = before.sets + 2
           /\ DOMAIN cache = before.keys \cup {key}

\* Two tasks have set a key that held an entry; the set of t1 took the lock
\* last and its entry is the one in the map.
C15_Witness ==
    /\ AllDone
    /\ TasksOf("set") = Tasks
    /\ \A t \in Tasks : tasks[t].key = "game_data_a"
    /\ "game_data_a" \in before.keys
    /\ call.value = OwnValue["t1"]
    /\ cache["game_data_a"].value = OwnValue["t1"]
    /\ stats.sets = before.sets + 2

\* The batch is one of sets of new keys, no two of the same key, of gets,
\* and of deletes of keys that were in the map, no two of the same key.
SetGetDeleteBatch ==
    /\ \A t \in Tasks : tasks[t].op \in {"set", "get", "delete"}
    /\ \A t \in TasksOf("set") : tasks[t].key \notin before.keys
    /\ \A t \in TasksOf("delete") : tasks[t].key \in before.keys
    /\ \A t, u \in Tasks :
          ( /\ t # u
            /\ tasks[t].op = tasks[u].op
            /\ tasks[t].op \in {"set", "delete"} )
          => tasks[t].key # tasks[u].key

\* No update of the batch is lost: tasks that each set a key of their own
\* leave every key in the map with its value, and the map holds as many
\* entries as before, plus the new keys set, minus the keys deleted.
NoLostUpdate ==
    /\ TasksOf("set") = Tasks
       => \A t \in Tasks :
             /\ tasks[t].key \in DOMAIN cache
             /\ cache[tasks[t].key].value = OwnValue[t]
    /\ Cardinality(DOMAIN cache) =
          Cardinality(before.keys) + Cardinality(TasksOf("set"))
             - Cardinality(TasksOf("delete"))

\* C16. No lost updates, as claimed: for every batch of concurrent sets of
\* new keys, gets, and deletes of distinct keys of the map, in every
\* interleaving each key set alone is in the map afterwards with its value
\* and the number of entries is the number before, plus the new keys set,
\* minus the keys deleted.
C16_NoLostUpdates ==
    (AllDone /\ SetGetDeleteBatch) => NoLostUpdate

\* C16, amended: the same, for a batch none of whose gets finds an entry
\* past its TTL (such a get removes the entry it finds).
C16_NoLostUpdatesNoExpiredRead ==
    ( /\ AllDone
      /\ SetGetDeleteBatch
      /\ \A t \in TasksOf("get") : tasks[t].log # "expired" )
    => NoLostUpdate

\* Of two entries in the map, one task has deleted one while the other task
\* has set a new key.
C16_Witness ==
    /\ AllDone
    /\ SetGetDeleteBatch
    /\ Cardinality(before.keys) = 1
    /\ tasks["t1"].op = "set"
    /\ tasks["t2"].op = "delete"
    /\ tasks["t2"].ret = TRUE
    /\ DOMAIN cache = {tasks["t1"].key}

\* C17. Wrapper hit path: when the get(key) of a wrapper call finds a live
\* entry, the call returns the value of the entry and the wrapped function
\* is not called; so a call that comes after another call of the same
\* key has stored its result, the entry still being there and live, does
\* not call the function again and returns that result.
C17_WrapperHit ==
    [][ \A t \in Tasks :
          ( /\ tasks[t].op = "cached"
            /\ tasks[t].pc = "held"
            /\ tasks[t].method = "get"
            /\ tasks'[t].pc # "held"
            /\ tasks[t].key \in DOMAIN cache
            /\ ~PastTTL(tasks[t].key) )
          => /\ tasks'[t].pc = "done"
             /\ tasks'[t].ret = cache[tasks[t].key].value
             /\ tasks'[t].calls = 0
             /\ \A u \in Tasks \ {t} :
                   ( /\ tasks[u].op = "cached"
                     /\ tasks[u].key = tasks[t].key
                     /\ tasks[u].pc = "done"
                     /\ tasks[u].did_set )
                   => tasks'[t].ret = tasks[u].result ]_vars

\* The call of t1 has called the function and stored its result; the call
\* of t2, made of the same key after that, has returned this result
\* without calling the function.
C17_Witness ==
    /\ AllDone
    /\ TasksOf("cached") = Tasks
    /\ tasks["t1"].key = tasks["t2"].key
    /\ tasks["t1"].calls = 1
    /\ tasks["t1"].did_set
    /\ tasks["t2"].calls = 0
    /\ tasks["t2"].ret = tasks["t1"].result

\* C18. Wrapper miss path: a wrapper call whose get missed calls the
\* wrapped function exactly once and returns what the function returned; it
\* stores the result (under its key, with its cache type) if and only if
\* the result is neither None nor empty, so that an absent or empty result
\* leaves the map and the sets counter as they were.
C18_WrapperMiss ==
    \A t \in Tasks :
       ( /\ tasks[t].op = "cached"
         /\ tasks[t].pc = "done"
         /\ tasks[t].calls > 0 )
       => /\ tasks[t].calls = 1
          /\ tasks[t].ret = tasks[t].result
          /\ tasks[t].did_set <=> tasks[t].result \notin {None, EmptyResult}

\* C21. Sweeper self-healing: cache_cleanup_task never ends on its own; an
\* exception raised by the sleep or by cleanup_expired in an iteration is
\* caught (the task waits in its back-off instead of ending), and is always
\* followed, after the back-off, by another call of cleanup_expired.
C21_SweeperSelfHealing ==
    /\ [](sweeper.pc # "ended")
    /\ [](sweeper.last = "fault" => sweeper.pc = "backoff")
    /\ (sweeper.last = "fault") ~> (sweeper.pc = "cleanup")

\* The task was at its call of cleanup_expired after an exception and a
\* back-off, and has made the call.
C21_Witness ==
    /\ sweeper.logged_error
    /\ sweeper.last = "cleaned"
    /\ call.op = "cleanup_expired"
    /\ call.ret = 1

\* C22. Admin-only clear: whenever the last cache call of a command handler
\* was clear() or cleanup_expired(), the handler's permission check had
\* returned true, and the caller has admin permissions.
C22_AdminOnlyClear ==
    cmd.did \in {"clear", "cleanup_expired"}
        => /\ cmd.check = "granted"
           /\ has_admin_permissions(cmd.caller)

\* At most one task is inside a locked section, and that task holds the
\* lock.
MutualExclusion ==
    /\ Cardinality({t \in Tasks : tasks[t].pc = "held"}) <= 1
    /\ \A t \in Tasks : tasks[t].pc = "held" <=> lock = t

\* The step is the return of a call of the CacheManager: the record of the
\* last call names another call than before.
CallReturned ==
    \/ call'.op # call.op
    \/ call'.key # call.key
    \/ call'.log # call.log

\* The step leaves task u where it was.
Untouched(u) ==
    /\ tasks'[u].pc = tasks[u].pc
    /\ tasks'[u].method = tasks[u].method
    /\ tasks'[u].entry = tasks[u].entry
    /\ tasks'[u].result = tasks[u].result
    /\ tasks'[u].log = tasks[u].log
    /\ tasks'[u].calls = tasks[u].calls
    /\ tasks'[u].did_set = tasks[u].did_set

\* C23. Mutual exclusion: at most one task is inside a locked section at
\* any time; every step of gathered tasks that reads or writes the map or
\* the counters for get, set, delete, clear, cleanup_expired or get_stats is
\* made by the task that holds the lock, is the whole locked section (the
\* lock is free afterwards) and leaves the other tasks where they were.
C23_MutualExclusion ==
    /\ []MutualExclusion
    /\ [][ ( /\ before.gathered
             /\ cache' # cache \/ stats' # stats \/ CallReturned )
           => /\ lock \in Tasks
              /\ tasks[lock].pc = "held"
              /\ lock' = None
              /\ tasks'[lock].pc \in {"done", "fetch"}
              /\ \A u \in Tasks \ {lock} : Untouched(u) ]_vars

\* A clear() is inside its locked section while a get_stats() waits for
\* the lock.
C23_Witness ==
    /\ tasks["t1"].op = "clear"
    /\ tasks["t1"].pc = "held"
    /\ lock = "t1"
    /\ tasks["t2"].op = "get_stats"
    /\ tasks["t2"].pc = "wait"

\* The counters and the size of the map as they are now.
Snapshot(s) ==
    /\ s.hits = stats.hits
    /\ s.misses = stats.misses
    /\ s.sets = stats.sets
    /\ s.deletes = stats.deletes
    /\ s.clears = stats.clears
    /\ s.total_entries = Cardinality(DOMAIN cache)

\* C24. No torn statistics: when get_stats() returns, its result is the
\* counters and the map size of that one state, with total_requests ==
\* hits + misses; a get_stats() that ran concurrently with a clear()
\* reports the size before the clear or the size after it together with
\* the clear counted, never something in between.
C24_NoTornStatistics ==
    /\ call.op = "get_stats" => Snapshot(call.ret)
    /\ \A t \in TasksOf("get_stats") :
          tasks[t].pc = "done"
             => /\ tasks[t].ret.total_requests =
                      tasks[t].ret.hits + tasks[t].ret.misses
                /\ ( AllDone /\ TasksOf("clear") # {} )
                      => IF tasks[t].ret.clears = stats.clears
                            THEN tasks[t].ret.total_entries =
                                    Cardinality(DOMAIN cache)
                            ELSE tasks[t].ret.total_entries =
                                    Cardinality(before.keys)

\* A get_stats() ran after a concurrent clear() that removed two entries:
\* it reports an empty map and the clear.
C24_Witness ==
    /\ AllDone
    /\ tasks["t1"].op = "clear"
    /\ tasks["t1"].ret = 2
    /\ tasks["t2"].op = "get_stats"
    /\ tasks["t2"].ret.total_entries = 0
    /\ tasks["t2"].ret.clears = 1

\* Both tasks called a wrapped function with the arguments of key on a
\* cache without an entry for it, both missed, called the function and
\* stored its result.
DoubleFetch(key) ==
    /\ AllDone
    /\ key \notin before.keys
    /\ \A t \in Tasks :
          /\ tasks[t].op = "cached"
          /\ tasks[t].key = key
          /\ tasks[t].calls = 1
          /\ tasks[t].did_set

\* C25. No single-flight: two tasks that call a wrapped function with the
\* same key on a cold cache can both miss and both call the function (the
\* witness); afterwards the key holds one entry, with the result of the
\* set that committed last, and misses and sets have each grown by 2.
C25_NoSingleFlight ==
    \A t \in Tasks :
       DoubleFetch(tasks[t].key)
          => /\ tasks[t].key \in DOMAIN cache
             /\ DOMAIN cache = before.keys \cup {tasks[t].key}
             /\ call.op = "set"
             /\ call.key = tasks[t].key
             /\ cache[tasks[t].key].value = call.value
             /\ cache[tasks[t].key].value \in
                   {tasks[u].result : u \in Tasks}
             /\ stats.misses = before.misses + 2
             /\ stats.sets = before.sets + 2

\* Both tasks missed and called the function; t2 stored its result first,
\* t1 last, and the entry is t1's.
C25_Witness ==
    /\ DoubleFetch("game_data_a")
    /\ tasks["t1"].result = OwnValue["t1"]
    /\ tasks["t2"].result = OwnValue["t2"]
    /\ cache["game_data_a"].value = OwnValue["t1"]

\* C26. The lock is never held across a fetch: a task that is in the
\* wrapped function (or between two calls of the cache) does not hold the
\* lock, in every reachable state; the cache calls of other tasks go on
\* meanwhile (the witness).
C26_NoLockAcrossFetch ==
    \A t \in Tasks :
       /\ tasks[t].pc = "fetch" => lock # t
       /\ lock = t => tasks[t].pc = "held"

\* While t1 is in the wrapped function after a miss, t2 has taken the lock,
\* stored an entry under t1's key and returned.
C26_Witness ==
    /\ tasks["t1"].pc = "fetch"
    /\ tasks["t1"].log = "miss"
    /\ tasks["t2"].op = "set"
    /\ tasks["t2"].pc = "done"
    /\ tasks["t2"].key = tasks["t1"].key
    /\ tasks["t1"].key \in DOMAIN cache
    /\ lock = None

\* C27. Fixed expiry: every entry in the map has the TTL the table gives
\* for the cache type of the set that stored it and the creation time of
\* that set, with expires_at == created_at + ttl, or no expiry when the type
\* has no TTL; so whatever was called since that set (a hit included) has
\* left created_at, ttl and expires_at as the set made them.
C27_FixedExpiry ==
    \A key \in DOMAIN cache :
       LET ttl == IF HasTTL(stored[key].cache_type)
                     THEN CACHE_DURATIONS[stored[key].cache_type]
                     ELSE NoneInt
       IN  /\ cache[key].ttl = ttl
           /\ cache[key].created_at = stored[key].at
           /\ cache[key].expires_at =
                 IF ttl # NoneInt THEN cache[key].created_at + ttl
                                  ELSE NoneInt

\* A game_data entry stored at 0 was read at the last instant of its TTL:
\* the hit is recorded, the expiry is where it was.
C27_Witness ==
    /\ "game_data_a" \in DOMAIN cache
    /\ cache["game_data_a"].access_count = 1
    /\ cache["game_data_a"].last_accessed = CACHE_DURATIONS["game_data"]
    /\ cache["game_data_a"].expires_at = CACHE_DURATIONS["game_data"]

\* C28. Eventual reclamation: once the clean-up task runs (and is scheduled
\* fairly), every entry that is in the map past its TTL is removed at some
\* later time (or replaced by a new set), whether or not a get of its key is
\* ever made.
C28_EventualReclamation ==
    \A key \in TaskKeys :
       ( /\ sweeper.pc # "idle"
         /\ key \in DOMAIN cache
         /\ is_expired(cache[key]) )
       ~> ( key \notin DOMAIN cache \/ ~is_expired(cache[key]) )

\* The clean-up task has removed an expired entry of a cache on which no
\* get was ever called.
C28_Witness ==
    /\ sweeper.last = "cleaned"
    /\ call.op = "cleanup_expired"
    /\ call.ret = 1
    /\ stats.hits + stats.misses = 0
    /\ now > CACHE_DURATIONS["game_data"]

\* C29. Selective clear covers each category's own keys: when
\* clear(cache_type) has returned, for a cache type of the TTL table, no
\* entry that was stored with that cache type is left in the map.
C29_ClearCoversCategory ==
    ( /\ call.op = "clear"
      /\ call.cache_type \in DOMAIN CACHE_DURATIONS )
    => \A key \in DOMAIN cache :
          stored[key].cache_type # call.cache_type

\* The arguments of a key generator call as the generator normalizes them:
\* the name keys ignore case and write "_" for " ".
Normalized(c) ==
    IF c.op \in {"team_logos_by_name_key", "venue_data_key",
                 "team_metadata_key"}
       THEN <<replace(lower(c.value[1]), " ", "_")>>
       ELSE c.value

\* The last two calls of key generators are calls for different requests:
\* of two generators, or of one with arguments that are not equivalent.
DifferentRequests ==
    /\ previous.op \in KeyGenerators
    /\ call.op \in KeyGenerators
    /\ \/ previous.op # call.op
       \/ Normalized(previous) # Normalized(call)

\* C30. Keys of different requests do not collide: two calls of one key
\* generator with arguments that are not equivalent, and two calls of
\* different key generators, return different keys.
C30_KeysDoNotCollide ==
    DifferentRequests => call.ret # previous.ret

\* The string holds the separator "_".
HasSeparator(s) == \E i \in 1..Len(s) : SubSeq(s, i, i) = "_"

\* The arguments of the call cannot be read as those of another call: the
\* parts of a game data key hold no "_", a team id does not start with
\* "name_".
Unambiguous(c) ==
    /\ c.op = "game_data_key"
          => \A i \in 1..Len(c.value) : ~HasSeparator(c.value[i])
    /\ c.op = "team_logos_key" => ~startswith(c.value[1], "name_")

\* C30, amended. Keys of different requests do not collide when no
\* argument of game_data_key holds the separator "_" and no team id starts
\* with "name_".
C30_UnambiguousKeysDoNotCollide ==
    ( /\ DifferentRequests
      /\ Unambiguous(previous)
      /\ Unambiguous(call) )
    => call.ret # previous.ret

\* team_logos_key with a team id and team_logos_by_name_key with a name
\* have returned keys, different ones.
C30_Witness ==
    /\ previous.op = "team_logos_key"
    /\ previous.value = <<"134153">>
    /\ call.op = "team_logos_by_name_key"
    /\ call.value = <<"LA Galaxy">>
    /\ call.ret = "team_logos_name_la_galaxy"
    /\ previous.ret = "team_logos_134153"

====
